---- MODULE Spec2Model ----
(***************************************************************************)
(* Emergency-Alert-sys: the alert lists, the alert status lifecycle, the   *)
(* primary-contact update and the reverse-geocoding fallback.              *)
(*                                                                         *)
(* The backend is the hosted database of the two schema files of the       *)
(* repository (src/unnamed/part_004 and the jolly_island migration).  Its  *)
(* row-level policies, CHECK constraints and column defaults are modelled  *)
(* as the SQL states them: a command with no policy is denied, an UPDATE   *)
(* or SELECT silently skips the rows its USING clause hides, an INSERT     *)
(* whose new row fails the policy is an error.  Columns the screens name   *)
(* are taken to exist.  Rows of users, responders and contacts that are in *)
(* the database when a screen is mounted are drawn in Init.                *)
(*                                                                         *)
(* A device (session) is signed in as one identity and shows one screen:   *)
(* one of the two AlertsScreen implementations of src/unnamed/part_002 or  *)
(* one of the two HomeScreen implementations of src/app/(tabs)/index.tsx.  *)
(***************************************************************************)
EXTENDS Integers, FiniteSets, Sequences, TLC

(***************************************************************************)
(* Bounds and universes                                                    *)
(***************************************************************************)
MaxAlerts == 1
MaxPending == 1
MaxInFlight == 2

Civilians == {"c1", "c2"}
ResponderIds == {"p1", "h1", "n1"}
Identities == Civilians \cup ResponderIds
Sessions == {"reporter", "viewer"}
AlertIds == 1..MaxAlerts

AlertTypes == {"police", "medical", "general"}
Statuses == {"pending", "acknowledged", "responding", "resolved"}
ScreenKinds == {"alerts1", "alerts2", "home1", "home2"}
Schemas == {"part_004", "jolly_island"}

NullId == "null"
\* err.message of a failed backend call
BackendError == "backend error"

VARIABLES
  schema,          \* which of the two schema files the database was built from
  users,           \* table users: the ids that have a row
  responders,      \* table responders: id -> [responder_type, verification_status]
  alertsTable,     \* table alerts: a set of rows [id, user_id, type, status]
  responsesTable,  \* table responses: a set of rows [alert_id, responder_id, action_taken]
  who,             \* session -> the identity signed in on the device
  kind,            \* session -> the screen implementation the device shows
  mounted,         \* session -> the screen's mount effect has run
  checking,        \* session -> a checkUserType call is in flight
  userType,        \* session -> useState userType
  loads,           \* session -> loadAlerts / loadActiveAlerts calls in flight
  isLoading,       \* session -> useState isLoading (AlertsScreen, first implementation)
  list,            \* session -> useState alerts / activeAlerts: the rows displayed
  error,           \* session -> useState error
  location,        \* session -> useState location is set (HomeScreen)
  subscribed,      \* session -> the realtime channel is subscribed
  contactsTable,   \* table contacts: a set of rows [id, user_id, is_primary]
  contacts,        \* session -> ContactsScreen useState contacts: the rows displayed
  contactsError,   \* session -> ContactsScreen useState error
  contactLoads,    \* session -> loadContacts calls in flight
  call,            \* session -> the setPrimaryContact call of the device:
                   \*   stage "second": between its two writes; id: its argument;
                   \*   clean: both of its writes succeeded on an existing contact
                   \*   of the caller and no other contacts operation ran since
                   \*   its first write; wasPrimary: the call is clean and id
                   \*   was a primary contact of the caller when it began
  latitude,        \* getAddressFromCoordinates: argument, in units of 10^-7 degree
  longitude,       \* getAddressFromCoordinates: argument, in units of 10^-7 degree
  geoStage,        \* position of the call: "idle", "fetch" (awaiting fetch),
                   \*   "json" (awaiting response.json()) or "done"
  geoFailure,      \* what failed in the call: "none", "fetchThrew", "notOk", "jsonThrew"
  geoOutcome,      \* how the call ended: [kind |-> "returned" / "threw", value]
  authIds,         \* auth.users: the identities that exist
  regStage,        \* RegisterScreen: "form", "signUp" (awaiting auth.signUp),
                   \*   "profile" (awaiting the profile insert) or "dialog"
                   \*   (the success dialog is shown)
  regType,         \* RegisterScreen useState userType
  regUser,         \* handleRegister: the user auth.signUp returned
  regError,        \* RegisterScreen useState error
  loading,         \* session -> HomeScreen useState loading
  sending,         \* session -> the arguments of the sendEmergencyAlert calls that
                   \*   are in flight past their location check, oldest first
  snapshots,       \* session -> the results of the list queries of the screen
                   \*   whose answers have not arrived yet
  joining,         \* session -> channel.subscribe() was called and the channel
                   \*   has not joined yet
  loginStage,      \* LoginScreen: "form", or the route handleLogin replaced it
                   \*   with: "welcome" or "tabs"
  loginUser,       \* the identity the last handleLogin signed in, or "null"
  loginError,      \* LoginScreen useState error
  settingsUser,    \* the identity signed in on the device showing SettingsScreen
  settingsLoading, \* SettingsScreen useState loading
  settingsType,    \* SettingsScreen useState userType
  profile,         \* SettingsScreen useState profile: [loaded |-> FALSE, ...]
                   \*   for null, else the loaded row (of its columns, the
                   \*   verification_status of a responder's row is followed)
  isEditing,       \* SettingsScreen useState isEditing
  settingsError    \* SettingsScreen useState error

dbVars == <<schema, users, responders, alertsTable, responsesTable>>
uiVars == <<who, kind, mounted, checking, userType, loads, isLoading, list, error,
            location, subscribed>>
alertVars == <<dbVars, uiVars>>
contactVars == <<contactsTable, contacts, contactsError, contactLoads, call>>
geoVars == <<latitude, longitude, geoStage, geoFailure, geoOutcome>>
regVars == <<authIds, regStage, regType, regUser, regError>>
flightVars == <<loading, sending, snapshots, joining>>
loginVars == <<loginStage, loginUser, loginError>>
settingsVars == <<settingsUser, settingsLoading, settingsType, profile, isEditing,
                  settingsError>>
restVars == <<flightVars, loginVars, settingsVars>>
vars == <<alertVars, contactVars, geoVars, regVars, restVars>>

Min(a, b) == IF a < b THEN a ELSE b

(***************************************************************************)
(* The database: row-level policies and constraints of the schema files    *)
(***************************************************************************)
IsVerifiedResponder(uid) ==
  uid \in DOMAIN responders /\ responders[uid].verification_status = TRUE

\* "Users can read own alerts" without the verification_status condition.
UsersCanReadOwnAlerts_AnyResponder(uid, row) ==
  row.user_id = uid \/ uid \in DOMAIN responders

\* part_004: "Users can read own alerts"
UsersCanReadOwnAlerts(uid, row) == row.user_id = uid \/ IsVerifiedResponder(uid)

\* jolly_island: "Users can view own alerts"
UsersCanViewOwnAlerts(uid, row) == uid = row.user_id

\* jolly_island: "Responders can view alerts"
RespondersCanViewAlerts(uid, row) == IsVerifiedResponder(uid)

\* Table alerts with row-level security off for SELECT.
AlertsSelectPolicy_Off(uid, row) == TRUE

\* The SELECT policies of table alerts (permissive policies are OR-ed).
AlertsSelectPolicy(uid, row) ==
  IF schema = "part_004"
    THEN UsersCanReadOwnAlerts(uid, row)
    ELSE UsersCanViewOwnAlerts(uid, row) \/ RespondersCanViewAlerts(uid, row)

\* "Users can create alerts" (both schema files)
UsersCanCreateAlerts(uid, row) == row.user_id = uid

\* "Responders can update alerts" without the verification_status condition.
RespondersCanUpdateAlerts_AnyResponder(uid, row) == uid \in DOMAIN responders

\* part_004: "Responders can update alerts"
RespondersCanUpdateAlerts(uid, row) == IsVerifiedResponder(uid)

\* The UPDATE policies of table alerts: jolly_island states none.
AlertsUpdatePolicy(uid, row) ==
  IF schema = "part_004" THEN RespondersCanUpdateAlerts(uid, row) ELSE FALSE

\* Column status without its CHECK.
AlertStatusCheck_Off(status) == TRUE

\* CHECK (status IN (...)) of part_004, enum alert_status of jolly_island
AlertStatusCheck(status) ==
  status \in {"pending", "acknowledged", "responding", "resolved"}

\* CHECK (type IN (...)) of part_004, enum alert_type of jolly_island
AlertTypeCheck(type) == type \in {"police", "medical", "general"}

\* Table users with an INSERT policy for the row of the caller.
UsersInsertPolicy_Own(uid, row) == row.id = uid

\* Table users has SELECT and UPDATE policies only: no INSERT policy.
UsersInsertPolicy(uid, row) == FALSE

\* "Responders can create responses" (both schema files)
RespondersCanCreateResponses(uid, row) == IsVerifiedResponder(uid)

\* responses.alert_id and responses.responder_id are foreign keys; NULL passes.
ResponsesForeignKeys(row) ==
  /\ row.alert_id \in {a.id : a \in alertsTable}
  /\ row.responder_id = NullId \/ row.responder_id \in DOMAIN responders

\* The rows a SELECT on alerts returns to uid.
SelectAlerts(uid) == {r \in alertsTable : AlertsSelectPolicy(uid, r)}

\* The rows an UPDATE ... .eq('id', alertId) issued by uid touches.
UpdatableAlerts(uid, alertId) ==
  {r \in alertsTable : r.id = alertId /\ AlertsUpdatePolicy(uid, r)}

\* An update that is applied only to rows whose stored status is pending.
ApplyStatusUpdate_Guarded(uid, alertId, status) ==
  IF AlertStatusCheck(status)
    THEN {IF r \in UpdatableAlerts(uid, alertId) /\ r.status = "pending"
            THEN [r EXCEPT !.status = status] ELSE r : r \in alertsTable}
    ELSE alertsTable

\* alerts after uid's update({status}).eq('id', alertId); a value outside the
\* CHECK is an error and changes nothing.
ApplyStatusUpdate(uid, alertId, status) ==
  IF AlertStatusCheck(status)
    THEN {IF r \in UpdatableAlerts(uid, alertId)
            THEN [r EXCEPT !.status = status] ELSE r : r \in alertsTable}
    ELSE alertsTable

\* gen_random_uuid(): an id no row has.
FreshAlertId ==
  IF \E n \in AlertIds : \A r \in alertsTable : r.id # n
    THEN CHOOSE n \in AlertIds : \A r \in alertsTable : r.id # n
    ELSE MaxAlerts + 1

(***************************************************************************)
(* Screens: pure helpers                                                   *)
(***************************************************************************)
\* checkUserType: users is asked first, then responders.
LookupUserType(uid) ==
  IF uid \in users THEN "civilian"
  ELSE IF uid \in DOMAIN responders THEN responders[uid].responder_type
  ELSE "null"

\* AlertsScreen.loadAlerts, first implementation: the filter by userType.
LoadAlertsFilter1(type, uid, row) ==
  IF type = "civilian" THEN row.user_id = uid
  ELSE IF type = "police" THEN row.type = "police" \/ row.type = "general"
  ELSE IF type = "hospital" THEN row.type = "medical" \/ row.type = "general"
  ELSE TRUE

\* AlertsScreen.loadAlerts, second implementation: no filter.
LoadAlertsFilter2(type, uid, row) == TRUE

\* HomeScreen.loadActiveAlerts, first implementation.
LoadActiveAlertsFilter1(type, row) ==
  /\ row.status # "resolved"
  /\ IF type = "police" THEN row.type \in {"police", "general"}
     ELSE IF type = "hospital" THEN row.type \in {"medical", "general"}
     ELSE TRUE

\* HomeScreen.loadActiveAlerts, second implementation.
LoadActiveAlertsFilter2(type, row) ==
  /\ row.status # "resolved"
  /\ IF type = "police" THEN row.type = "police"
     ELSE IF type = "hospital" THEN row.type = "medical"
     ELSE TRUE

\* The result of the query the screen of session s issues.
QueryResult(s) ==
  LET uid == who[s]
      type == userType[s]
  IN  {r \in SelectAlerts(uid) :
         CASE kind[s] = "alerts1" -> LoadAlertsFilter1(type, uid, r)
           [] kind[s] = "alerts2" -> LoadAlertsFilter2(type, uid, r)
           [] kind[s] = "home1" -> LoadActiveAlertsFilter1(type, r)
           [] kind[s] = "home2" -> LoadActiveAlertsFilter2(type, r)}

\* Action buttons that offer Respond only on an acknowledged item.
OfferedStatuses_NoSkip(type, status) ==
  IF type # "civilian" /\ status # "resolved"
    THEN (IF status = "pending" THEN {"acknowledged"} ELSE {})
         \cup (IF status = "acknowledged" THEN {"responding"} ELSE {})
         \cup (IF status = "responding" THEN {"resolved"} ELSE {})
    ELSE {}

\* renderAlert: the status changes the action buttons of an item offer.
OfferedStatuses(type, status) ==
  IF type # "civilian" /\ status # "resolved"
    THEN (IF status = "pending" THEN {"acknowledged"} ELSE {})
         \cup (IF status = "acknowledged" \/ status = "pending"
                 THEN {"responding"} ELSE {})
         \cup (IF status = "responding" THEN {"resolved"} ELSE {})
    ELSE {}

\* setupRealtimeSubscription: does a change of row match the channel's filter?
ChannelFilter(s, row) ==
  CASE kind[s] = "alerts1" ->
         IF userType[s] = "civilian" THEN row.user_id = who[s]
         ELSE IF userType[s] = "police"
           THEN row.type = "police" \/ row.type = "general"
         ELSE IF userType[s] = "hospital"
           THEN row.type = "medical" \/ row.type = "general"
         ELSE FALSE
    [] kind[s] = "home1" ->
         IF userType[s] = "police" THEN row.type \in {"police", "general"}
         ELSE IF userType[s] = "hospital" THEN row.type \in {"medical", "general"}
         ELSE FALSE
    [] OTHER -> FALSE

\* A change feed that delivers nothing.
Notified_None(rows) == {}

\* The sessions whose channel delivers a change of one of rows (the change feed
\* delivers a row only to a subscriber the SELECT policy lets read it).
Notified(rows) ==
  {t \in Sessions : subscribed[t] /\
     \E r \in rows : ChannelFilter(t, r) /\ AlertsSelectPolicy(who[t], r)}

\* loadAlerts / loadActiveAlerts is called on every session of S.
\* (The first AlertsScreen's loadAlerts returns at once while userType is null;
\* calls beyond MaxPending in flight are merged into the ones in flight.)
Starts(S) == {t \in S : ~(kind[t] = "alerts1" /\ userType[t] = "null")}

StartLoads(S) ==
  /\ loads' = [t \in Sessions |->
                 IF t \in Starts(S) THEN Min(loads[t] + 1, MaxPending) ELSE loads[t]]
  /\ isLoading' = [t \in Sessions |->
                 IF t \in Starts(S) /\ kind[t] = "alerts1" THEN TRUE ELSE isLoading[t]]

IsAlertsScreen(s) == kind[s] \in {"alerts1", "alerts2"}
IsHomeScreen(s) == kind[s] \in {"home1", "home2"}

(***************************************************************************)
(* Screens: the operations                                                 *)
(***************************************************************************)
\* The mount effect: useEffect(() => {...}, []).
Mount(s) ==
  /\ ~mounted[s]
  /\ mounted' = [mounted EXCEPT ![s] = TRUE]
  /\ checking' = [checking EXCEPT ![s] = TRUE]
  /\ IF kind[s] = "alerts2"
       THEN loads' = [loads EXCEPT ![s] = Min(loads[s] + 1, MaxPending)]
       ELSE UNCHANGED loads
  /\ IF IsHomeScreen(s)
       THEN \E granted \in BOOLEAN : location' = [location EXCEPT ![s] = granted]
       ELSE UNCHANGED location
  /\ UNCHANGED <<contactVars, geoVars, regVars, restVars>>
  /\ UNCHANGED <<dbVars, who, kind, userType, isLoading, list, error, subscribed>>

\* checkUserType returns; found = FALSE: the two lookups returned no data.
CheckUserTypeDone(s, found) ==
  /\ checking[s]
  /\ checking' = [checking EXCEPT ![s] = FALSE]
  /\ LET type == IF found THEN LookupUserType(who[s]) ELSE "null"
         loadsNow == \/ kind[s] = "alerts1" /\ type # "null"
                     \/ kind[s] = "home1" /\ type \in {"police", "hospital"}
                     \/ kind[s] = "home2" /\ type # "null"
         subscribes == \/ kind[s] = "alerts1" /\ type # "null"
                       \/ kind[s] = "home1" /\ type \in {"police", "hospital"}
     IN  /\ userType' = [userType EXCEPT ![s] = type]
         /\ loads' = [loads EXCEPT ![s] =
                        IF loadsNow THEN Min(loads[s] + 1, MaxPending) ELSE loads[s]]
         /\ subscribed' = [subscribed EXCEPT ![s] = subscribes]
         /\ isLoading' = [isLoading EXCEPT ![s] =
                        IF kind[s] = "alerts1" THEN type # "null" ELSE isLoading[s]]
         /\ error' = [error EXCEPT ![s] =
                        IF kind[s] = "alerts1" /\ type = "null"
                          THEN "User type not found" ELSE error[s]]
  /\ UNCHANGED <<contactVars, geoVars, regVars, restVars>>
  /\ UNCHANGED <<dbVars, who, kind, mounted, list, location>>

\* A loadAlerts / loadActiveAlerts call in flight runs its query and returns.
LoadDone(s, ok) ==
  /\ loads[s] > 0
  /\ loads' = [loads EXCEPT ![s] = loads[s] - 1]
  /\ list' = [list EXCEPT ![s] = IF ok THEN QueryResult(s) ELSE list[s]]
  /\ error' = [error EXCEPT ![s] =
                 IF ~ok THEN BackendError
                 ELSE IF kind[s] = "alerts1" THEN "" ELSE error[s]]
  /\ isLoading' = [isLoading EXCEPT ![s] =
                 IF kind[s] = "alerts1" THEN FALSE ELSE isLoading[s]]
  /\ UNCHANGED <<contactVars, geoVars, regVars, restVars>>
  /\ UNCHANGED <<dbVars, who, kind, mounted, checking, userType, location, subscribed>>

\* AlertsScreen, first implementation: pull-to-refresh (onRefresh={loadAlerts}).
Refresh(s) ==
  /\ kind[s] = "alerts1" /\ mounted[s] /\ ~isLoading[s] /\ userType[s] # "null"
  /\ StartLoads({s})
  /\ UNCHANGED <<contactVars, geoVars, regVars, restVars>>
  /\ UNCHANGED <<dbVars, who, kind, mounted, checking, userType, list, error,
                 location, subscribed>>

\* AlertsScreen, first implementation: the Retry button of the error banner.
Retry(s) ==
  /\ kind[s] = "alerts1" /\ mounted[s] /\ error[s] # ""
  /\ error' = [error EXCEPT ![s] = ""]
  /\ StartLoads({s})
  /\ UNCHANGED <<contactVars, geoVars, regVars, restVars>>
  /\ UNCHANGED <<dbVars, who, kind, mounted, checking, userType, list, location,
                 subscribed>>

\* The responses row updateAlertStatus inserts.
ResponseRow(s, alertId, status) ==
  [alert_id |-> alertId,
   responder_id |-> IF kind[s] = "alerts1" THEN who[s] ELSE NullId,
   action_taken |-> status]

\* updateAlertStatus with a failed responses insert thrown to the catch block:
\* the error message is set and the list is not reloaded.
updateAlertStatus_IgnoresUpdateError(s, item, status, outcome) ==
  /\ IsAlertsScreen(s) /\ mounted[s]
  /\ kind[s] = "alerts1" => ~isLoading[s]
  /\ item \in list[s]
  /\ status \in OfferedStatuses(userType[s], item.status)
  /\ LET row == ResponseRow(s, item.id, status)
     IN  /\ alertsTable' = IF outcome = "updateError" THEN alertsTable
                           ELSE ApplyStatusUpdate(who[s], item.id, status)
         /\ responsesTable' =
              IF /\ outcome # "responseError"
                 /\ RespondersCanCreateResponses(who[s], row)
                 /\ ResponsesForeignKeys(row)
                THEN responsesTable \cup {row}
                ELSE responsesTable
         /\ StartLoads({s} \cup
              Notified({r \in alertsTable' : r.id = item.id /\
                          outcome # "updateError" /\
                          UpdatableAlerts(who[s], item.id) # {}}))
         /\ UNCHANGED error
  /\ UNCHANGED <<contactVars, geoVars, regVars, restVars>>
  /\ UNCHANGED <<schema, users, responders, who, kind, mounted, checking, userType,
                 list, location, subscribed>>

updateAlertStatus_ThrowsResponseError(s, item, status, outcome) ==
  /\ IsAlertsScreen(s) /\ mounted[s]
  /\ kind[s] = "alerts1" => ~isLoading[s]
  /\ item \in list[s]
  /\ status \in OfferedStatuses(userType[s], item.status)
  /\ IF outcome = "updateError"
       THEN /\ error' = [error EXCEPT ![s] = BackendError]
            /\ UNCHANGED <<alertsTable, responsesTable, loads, isLoading>>
       ELSE LET row == ResponseRow(s, item.id, status)
            IN  /\ alertsTable' = ApplyStatusUpdate(who[s], item.id, status)
                /\ responsesTable' =
                     IF /\ outcome = "ok"
                        /\ RespondersCanCreateResponses(who[s], row)
                        /\ ResponsesForeignKeys(row)
                       THEN responsesTable \cup {row}
                       ELSE responsesTable
                /\ StartLoads((IF outcome = "ok" THEN {s} ELSE {}) \cup
                     Notified({r \in alertsTable' : r.id = item.id /\
                                 UpdatableAlerts(who[s], item.id) # {}}))
                /\ error' = [error EXCEPT ![s] =
                               IF outcome = "ok" THEN error[s] ELSE BackendError]
  /\ UNCHANGED <<contactVars, geoVars, regVars, restVars>>
  /\ UNCHANGED <<schema, users, responders, who, kind, mounted, checking, userType,
                 list, location, subscribed>>

\* updateAlertStatus(item.id, status), pressed on an action button of item.
\* outcome: "ok", "updateError" (the status write returns an error) or
\* "responseError" (the responses insert returns an error).
updateAlertStatus(s, item, status, outcome) ==
  /\ IsAlertsScreen(s) /\ mounted[s]
  /\ kind[s] = "alerts1" => ~isLoading[s]
  /\ item \in list[s]
  /\ status \in OfferedStatuses(userType[s], item.status)
  /\ IF outcome = "updateError"
       THEN /\ error' = [error EXCEPT ![s] = BackendError]
            /\ UNCHANGED <<alertsTable, responsesTable, loads, isLoading>>
       ELSE LET row == ResponseRow(s, item.id, status)
            IN  /\ alertsTable' = ApplyStatusUpdate(who[s], item.id, status)
                /\ responsesTable' =
                     IF /\ outcome = "ok"
                        /\ RespondersCanCreateResponses(who[s], row)
                        /\ ResponsesForeignKeys(row)
                       THEN responsesTable \cup {row}
                       ELSE responsesTable
                /\ StartLoads({s} \cup
                     Notified({r \in alertsTable' : r.id = item.id /\
                                 UpdatableAlerts(who[s], item.id) # {}}))
                /\ UNCHANGED error
  /\ UNCHANGED <<contactVars, geoVars, regVars, restVars>>
  /\ UNCHANGED <<schema, users, responders, who, kind, mounted, checking, userType,
                 list, location, subscribed>>

\* A press of one of the action buttons renderAlert shows.
PressStatusButton(s) ==
  \E item \in list[s], status \in Statuses,
     outcome \in {"ok", "updateError", "responseError"} :
     updateAlertStatus(s, item, status, outcome)

\* sendEmergencyAlert(type), pressed on one of the three emergency buttons.
\* outcome: "ok" or "alertError" (the alerts insert returns an error).
sendEmergencyAlert(s, type, outcome) ==
  /\ IsHomeScreen(s) /\ mounted[s]
  /\ userType[s] \notin {"police", "hospital"}
  /\ LET uid == who[s]
         row == [id |-> FreshAlertId, user_id |-> uid, type |-> type,
                 status |-> "pending"]
         newUser == [id |-> uid]
     IN  IF ~location[s]
           THEN /\ error' = [error EXCEPT ![s] =
                               "Unable to get your location. Please try again."]
                /\ UNCHANGED <<users, alertsTable, loads, isLoading>>
         ELSE IF uid \notin users /\ ~UsersInsertPolicy(uid, newUser)
           THEN /\ error' = [error EXCEPT ![s] = BackendError]
                /\ UNCHANGED <<users, alertsTable, loads, isLoading>>
         ELSE IF \/ outcome = "alertError"
                 \/ ~UsersCanCreateAlerts(uid, row)
                 \/ ~AlertTypeCheck(row.type) \/ ~AlertStatusCheck(row.status)
           THEN /\ error' = [error EXCEPT ![s] = BackendError]
                /\ users' = users \cup {uid}
                /\ UNCHANGED <<alertsTable, loads, isLoading>>
         ELSE /\ Cardinality(alertsTable) < MaxAlerts
              /\ error' = [error EXCEPT ![s] = ""]
              /\ users' = users \cup {uid}
              /\ alertsTable' = alertsTable \cup {row}
              /\ StartLoads(Notified({row}))
  /\ UNCHANGED <<contactVars, geoVars, regVars, restVars>>
  /\ UNCHANGED <<schema, responders, responsesTable, who, kind, mounted, checking,
                 userType, list, location, subscribed>>

\* No sendEmergencyAlert call and no list query is in flight.
NothingInFlight ==
  /\ loading = [s \in Sessions |-> FALSE]
  /\ sending = [s \in Sessions |-> <<>>]
  /\ snapshots = [s \in Sessions |-> {}]
  /\ joining = [s \in Sessions |-> FALSE]

\* No device shows the Login screen.
LoginScreenUnused ==
  /\ loginStage = "form"
  /\ loginUser = NullId
  /\ loginError = ""

\* useState<UserProfile | ResponderProfile | null>(null)
NoProfile == [loaded |-> FALSE, verification_status |-> FALSE]

\* No device shows the Settings screen.
SettingsScreenUnused ==
  /\ settingsUser = NullId
  /\ settingsLoading = TRUE
  /\ settingsType = "null"
  /\ profile = NoProfile
  /\ isEditing = FALSE
  /\ settingsError = ""

\* No device shows the Register screen.
RegisterScreenUnused ==
  /\ authIds = Identities
  /\ regStage = "form"
  /\ regType = "civilian"
  /\ regUser = NullId
  /\ regError = ""

\* getAddressFromCoordinates is not called.
GeocodingUnused ==
  /\ latitude = 0
  /\ longitude = 0
  /\ geoStage = "idle"
  /\ geoFailure = "none"
  /\ geoOutcome = [kind |-> "none", value |-> ""]

\* No device shows the Contacts screen.
ContactsScreenUnused ==
  /\ contactsTable = {}
  /\ contacts = [s \in Sessions |-> {}]
  /\ contactsError = [s \in Sessions |-> ""]
  /\ contactLoads = [s \in Sessions |-> 0]
  /\ call = [s \in Sessions |-> [stage |-> "idle", id |-> NullId, clean |-> FALSE, wasPrimary |-> FALSE]]

(***************************************************************************)
(* Specification of the alert screens                                      *)
(***************************************************************************)
Init ==
  /\ schema \in Schemas
  /\ users = Civilians
  /\ responders =
       [i \in ResponderIds |->
          [responder_type |-> IF i = "h1" THEN "hospital" ELSE "police",
           verification_status |-> i # "n1"]]
  /\ alertsTable = {}
  /\ responsesTable = {}
  /\ who \in [Sessions -> Identities]
  /\ kind \in [Sessions -> ScreenKinds]
  /\ who["reporter"] \in Civilians
  /\ kind["reporter"] = "home1"
  /\ mounted = [s \in Sessions |-> FALSE]
  /\ checking = [s \in Sessions |-> FALSE]
  /\ userType = [s \in Sessions |-> "null"]
  /\ loads = [s \in Sessions |-> 0]
  /\ isLoading = [s \in Sessions |-> kind[s] = "alerts1"]
  /\ list = [s \in Sessions |-> {}]
  /\ error = [s \in Sessions |-> ""]
  /\ location = [s \in Sessions |-> FALSE]
  /\ subscribed = [s \in Sessions |-> FALSE]
  /\ ContactsScreenUnused
  /\ GeocodingUnused
  /\ RegisterScreenUnused
  /\ NothingInFlight
  /\ LoginScreenUnused
  /\ SettingsScreenUnused

Next ==
  \/ \E s \in Sessions : Mount(s)
  \/ \E s \in Sessions, found \in BOOLEAN : CheckUserTypeDone(s, found)
  \/ \E s \in Sessions, ok \in BOOLEAN : LoadDone(s, ok)
  \/ \E s \in Sessions : Refresh(s)
  \/ \E s \in Sessions : Retry(s)
  \/ \E s \in Sessions : PressStatusButton(s)
  \/ \E s \in Sessions, type \in AlertTypes, outcome \in {"ok", "alertError"} :
        sendEmergencyAlert(s, type, outcome)

Spec == Init /\ [][Next]_vars

(***************************************************************************)
(* The backend seen from outside the screens                               *)
(***************************************************************************)
\* verification_status is set outside the app (an administrator's change).  Only the
\* accounts a device is signed in as are followed: nothing reads the others.
SetVerificationStatus(i, v) ==
  /\ i \in DOMAIN responders
  /\ \E s \in Sessions : who[s] = i
  /\ responders[i].verification_status # v
  /\ responders' = [responders EXCEPT ![i].verification_status = v]
  /\ UNCHANGED <<contactVars, geoVars, regVars, restVars>>
  /\ UNCHANGED <<schema, users, alertsTable, responsesTable, uiVars>>

\* Values a client of the data interface can put in an update of alerts.status.
StatusInputs == Statuses \cup {"cancelled"}

\* An authenticated client issues update({status: value}).eq('id', alertId)
\* on alerts directly; the policies and the CHECK decide what is stored.
restUpdateAlertStatus(uid, alertId, value) ==
  /\ alertsTable' = ApplyStatusUpdate(uid, alertId, value)
  /\ alertsTable' # alertsTable
  /\ StartLoads(Notified({r \in alertsTable' : r.id = alertId}))
  /\ UNCHANGED <<contactVars, geoVars, regVars, restVars>>
  /\ UNCHANGED <<schema, users, responders, responsesTable, who, kind, mounted,
                 checking, userType, list, error, location, subscribed>>

\* The screens, with verification_status changing under them.
NextAdmin ==
  \/ Next
  \/ \E i \in ResponderIds, v \in BOOLEAN : SetVerificationStatus(i, v)

SpecAdmin == Init /\ [][NextAdmin]_vars

\* The screens, with clients writing alerts.status directly.
NextRest ==
  \/ Next
  \/ \E uid \in Identities, alertId \in AlertIds, value \in StatusInputs :
        restUpdateAlertStatus(uid, alertId, value)

SpecRest == Init /\ [][NextRest]_vars

\* Table responses with a DELETE policy for every authenticated client.
ResponsesDeletePolicy_Any(uid, row) == TRUE

\* Table responses has SELECT and INSERT policies only (both schema files):
\* no DELETE policy, no UPDATE policy.
ResponsesDeletePolicy(uid, row) == FALSE
ResponsesUpdatePolicy(uid, row) == FALSE

\* Free text a client of the data interface puts in responses.action_taken.
ActionTexts == {"on the way"}

\* An authenticated client issues an insert, update({action_taken: text}) or
\* delete on responses directly, for the rows of one alert; the policies and
\* the foreign keys decide what is stored.
restWriteResponses(uid, op, alertId, text) ==
  /\ \E s \in Sessions : who[s] = uid
  /\ LET row == [alert_id |-> alertId, responder_id |-> uid, action_taken |-> text]
     IN  responsesTable' =
           CASE op = "insert" ->
                  IF RespondersCanCreateResponses(uid, row) /\ ResponsesForeignKeys(row)
                    THEN responsesTable \cup {row} ELSE responsesTable
             [] op = "update" ->
                  {IF r.alert_id = alertId /\ ResponsesUpdatePolicy(uid, r)
                     THEN [r EXCEPT !.action_taken = text] ELSE r : r \in responsesTable}
             [] op = "delete" ->
                  {r \in responsesTable :
                     ~(r.alert_id = alertId /\ ResponsesDeletePolicy(uid, r))}
  /\ responsesTable' # responsesTable
  /\ UNCHANGED <<contactVars, geoVars, regVars, restVars>>
  /\ UNCHANGED <<schema, users, responders, alertsTable, uiVars>>

\* The screens, with clients writing responses directly.
NextResponses ==
  \/ Next
  \/ \E uid \in Identities, op \in {"insert", "update", "delete"},
        alertId \in AlertIds, text \in ActionTexts :
        restWriteResponses(uid, op, alertId, text)

SpecResponses == Init /\ [][NextResponses]_vars

\* Two responders' devices show an Alerts screen; civilian c1 has sent a general
\* alert, which is pending.
InitResponders ==
  /\ schema \in Schemas
  /\ users = Civilians
  /\ responders =
       [i \in ResponderIds |->
          [responder_type |-> IF i = "h1" THEN "hospital" ELSE "police",
           verification_status |-> i # "n1"]]
  /\ alertsTable = {[id |-> 1, user_id |-> "c1", type |-> "general", status |-> "pending"]}
  /\ responsesTable = {}
  /\ who \in [Sessions -> ResponderIds]
  /\ who["reporter"] = "p1"
  /\ kind \in [Sessions -> {"alerts1", "alerts2"}]
  /\ mounted = [s \in Sessions |-> FALSE]
  /\ checking = [s \in Sessions |-> FALSE]
  /\ userType = [s \in Sessions |-> "null"]
  /\ loads = [s \in Sessions |-> 0]
  /\ isLoading = [s \in Sessions |-> kind[s] = "alerts1"]
  /\ list = [s \in Sessions |-> {}]
  /\ error = [s \in Sessions |-> ""]
  /\ location = [s \in Sessions |-> FALSE]
  /\ subscribed = [s \in Sessions |-> FALSE]
  /\ ContactsScreenUnused
  /\ GeocodingUnused
  /\ RegisterScreenUnused
  /\ NothingInFlight
  /\ LoginScreenUnused
  /\ SettingsScreenUnused

NextResponders ==
  \/ \E s \in Sessions : Mount(s)
  \/ \E s \in Sessions, found \in BOOLEAN : CheckUserTypeDone(s, found)
  \/ \E s \in Sessions, ok \in BOOLEAN : LoadDone(s, ok)
  \/ \E s \in Sessions : Refresh(s)
  \/ \E s \in Sessions : Retry(s)
  \/ \E s \in Sessions : PressStatusButton(s)

SpecResponders == InitResponders /\ [][NextResponders]_vars

(***************************************************************************)
(* The Home screen with sendEmergencyAlert followed through its awaits      *)
(***************************************************************************)
\* A location check that never fails.
LocationMissing_Never(s) == FALSE

\* sendEmergencyAlert: if (!location)
LocationMissing(s) == ~location[s]

\* An alerts row that is always of type general.
AlertRow_AlwaysGeneral(s, type) ==
  [id |-> FreshAlertId, user_id |-> who[s], type |-> "general", status |-> "pending"]

\* sendEmergencyAlert: the row of its insert into alerts.
AlertRow(s, type) ==
  [id |-> FreshAlertId, user_id |-> who[s], type |-> type, status |-> "pending"]

\* Emergency buttons that are never disabled.
ButtonsDisabled_Never(s) == FALSE

\* The emergency buttons: disabled={loading}
ButtonsDisabled(s) == loading[s]

\* sendEmergencyAlert: finally { setLoading(false) }
FinallyBlock(s) == [loading EXCEPT ![s] = FALSE]

\* sendEmergencyAlert(type) is pressed: the location check, setLoading(true)
\* and setError('') up to the first await.  At most MaxInFlight calls of a
\* screen are followed at a time.
sendEmergencyAlertBegins(s, type) ==
  /\ IsHomeScreen(s) /\ mounted[s]
  /\ userType[s] \notin {"police", "hospital"}
  /\ ~ButtonsDisabled(s)
  /\ Len(sending[s]) < MaxInFlight
  /\ IF LocationMissing(s)
       THEN /\ error' = [error EXCEPT ![s] =
                           "Unable to get your location. Please try again."]
            /\ UNCHANGED <<loading, sending>>
       ELSE /\ error' = [error EXCEPT ![s] = ""]
            /\ loading' = [loading EXCEPT ![s] = TRUE]
            /\ sending' = [sending EXCEPT ![s] = Append(sending[s], type)]
  /\ UNCHANGED <<contactVars, geoVars, regVars, loginVars, settingsVars>>
  /\ UNCHANGED <<dbVars, who, kind, mounted, checking, userType, loads, isLoading,
                 list, location, subscribed, snapshots, joining>>

\* The i-th call in flight runs from its first await to its return: the lookup
\* of the users row, the insert of a missing one, the insert into alerts, then
\* the catch and finally blocks.  outcome: "ok", "notAuthenticated" (getUser
\* returns no user) or "alertError" (the alerts insert returns an error);
\* "ok" is followed while the table holds fewer than MaxAlerts rows.
sendEmergencyAlertReturns(s, i, outcome) ==
  /\ i \in 1..Len(sending[s])
  /\ outcome = "ok" => Cardinality(alertsTable) < MaxAlerts
  /\ LET uid == who[s]
         row == AlertRow(s, sending[s][i])
         newUser == [id |-> uid]
     IN  IF outcome = "notAuthenticated"
           THEN /\ error' = [error EXCEPT ![s] = "Not authenticated"]
                /\ UNCHANGED <<users, alertsTable, loads, isLoading>>
         ELSE IF uid \notin users /\ ~UsersInsertPolicy(uid, newUser)
           THEN /\ error' = [error EXCEPT ![s] = BackendError]
                /\ UNCHANGED <<users, alertsTable, loads, isLoading>>
         ELSE IF \/ outcome = "alertError"
                 \/ ~UsersCanCreateAlerts(uid, row)
                 \/ ~AlertTypeCheck(row.type) \/ ~AlertStatusCheck(row.status)
           THEN /\ error' = [error EXCEPT ![s] = BackendError]
                /\ users' = users \cup {uid}
                /\ UNCHANGED <<alertsTable, loads, isLoading>>
         ELSE /\ users' = users \cup {uid}
              /\ alertsTable' = alertsTable \cup {row}
              /\ StartLoads(Notified({row}))
              /\ UNCHANGED error
  /\ sending' = [sending EXCEPT ![s] =
                   SubSeq(sending[s], 1, i - 1) \o
                   SubSeq(sending[s], i + 1, Len(sending[s]))]
  /\ loading' = FinallyBlock(s)
  /\ UNCHANGED <<contactVars, geoVars, regVars, loginVars, settingsVars>>
  /\ UNCHANGED <<schema, responders, responsesTable, who, kind, mounted, checking,
                 userType, list, location, subscribed, snapshots, joining>>

\* Two devices show a Home screen.
InitHome ==
  /\ schema \in Schemas
  /\ users = Civilians
  /\ responders =
       [i \in ResponderIds |->
          [responder_type |-> IF i = "h1" THEN "hospital" ELSE "police",
           verification_status |-> i # "n1"]]
  /\ alertsTable = {}
  /\ responsesTable = {}
  /\ who \in [Sessions -> Identities]
  /\ who["reporter"] \in Civilians
  /\ kind \in [Sessions -> {"home1", "home2"}]
  /\ mounted = [s \in Sessions |-> FALSE]
  /\ checking = [s \in Sessions |-> FALSE]
  /\ userType = [s \in Sessions |-> "null"]
  /\ loads = [s \in Sessions |-> 0]
  /\ isLoading = [s \in Sessions |-> FALSE]
  /\ list = [s \in Sessions |-> {}]
  /\ error = [s \in Sessions |-> ""]
  /\ location = [s \in Sessions |-> FALSE]
  /\ subscribed = [s \in Sessions |-> FALSE]
  /\ ContactsScreenUnused
  /\ GeocodingUnused
  /\ RegisterScreenUnused
  /\ NothingInFlight
  /\ LoginScreenUnused
  /\ SettingsScreenUnused

NextHome ==
  \/ \E s \in Sessions : Mount(s)
  \/ \E s \in Sessions, found \in BOOLEAN : CheckUserTypeDone(s, found)
  \/ \E s \in Sessions, ok \in BOOLEAN : LoadDone(s, ok)
  \/ \E s \in Sessions, type \in AlertTypes : sendEmergencyAlertBegins(s, type)
  \/ \E s \in Sessions, i \in 1..MaxInFlight,
        outcome \in {"ok", "notAuthenticated", "alertError"} :
        sendEmergencyAlertReturns(s, i, outcome)

SpecHome == InitHome /\ [][NextHome]_vars

(***************************************************************************)
(* The screens with the join of the realtime channel followed as a step     *)
(***************************************************************************)
\* checkUserType returns and the effect on userType runs: the list query is
\* sent and channel.subscribe() is called; the channel delivers nothing before
\* it has joined.
CheckUserTypeDoneJoining(s, found) ==
  /\ checking[s]
  /\ checking' = [checking EXCEPT ![s] = FALSE]
  /\ LET type == IF found THEN LookupUserType(who[s]) ELSE "null"
         loadsNow == \/ kind[s] = "alerts1" /\ type # "null"
                     \/ kind[s] = "home1" /\ type \in {"police", "hospital"}
                     \/ kind[s] = "home2" /\ type # "null"
         subscribes == \/ kind[s] = "alerts1" /\ type # "null"
                       \/ kind[s] = "home1" /\ type \in {"police", "hospital"}
     IN  /\ userType' = [userType EXCEPT ![s] = type]
         /\ loads' = [loads EXCEPT ![s] =
                        IF loadsNow THEN Min(loads[s] + 1, MaxPending) ELSE loads[s]]
         /\ joining' = [joining EXCEPT ![s] = subscribes]
         /\ isLoading' = [isLoading EXCEPT ![s] =
                        IF kind[s] = "alerts1" THEN type # "null" ELSE isLoading[s]]
         /\ error' = [error EXCEPT ![s] =
                        IF kind[s] = "alerts1" /\ type = "null"
                          THEN "User type not found" ELSE error[s]]
  /\ UNCHANGED <<contactVars, geoVars, regVars, loginVars, settingsVars>>
  /\ UNCHANGED <<dbVars, who, kind, mounted, list, location, subscribed,
                 loading, sending, snapshots>>

\* The channel of session s has joined: changes are delivered from now on.
ChannelJoined(s) ==
  /\ joining[s]
  /\ joining' = [joining EXCEPT ![s] = FALSE]
  /\ subscribed' = [subscribed EXCEPT ![s] = TRUE]
  /\ UNCHANGED <<contactVars, geoVars, regVars, loginVars, settingsVars>>
  /\ UNCHANGED <<dbVars, who, kind, mounted, checking, userType, loads, isLoading,
                 list, error, location, loading, sending, snapshots>>

\* The alert is sent once the viewer's screen has sent its first list query.
InitialLoadStarted(s) == mounted[s] /\ ~checking[s] /\ userType[s] # "null"

\* A civilian's Home screen and a verified responder's Home or Alerts screen
\* (first implementations, the ones that subscribe).
InitLive ==
  /\ schema \in Schemas
  /\ users = Civilians
  /\ responders =
       [i \in ResponderIds |->
          [responder_type |-> IF i = "h1" THEN "hospital" ELSE "police",
           verification_status |-> i # "n1"]]
  /\ alertsTable = {}
  /\ responsesTable = {}
  /\ who \in [Sessions -> Identities]
  /\ who["reporter"] \in Civilians
  /\ who["viewer"] \in {"p1", "h1"}
  /\ kind \in [Sessions -> {"home1", "alerts1"}]
  /\ kind["reporter"] = "home1"
  /\ mounted = [s \in Sessions |-> FALSE]
  /\ checking = [s \in Sessions |-> FALSE]
  /\ userType = [s \in Sessions |-> "null"]
  /\ loads = [s \in Sessions |-> 0]
  /\ isLoading = [s \in Sessions |-> kind[s] = "alerts1"]
  /\ list = [s \in Sessions |-> {}]
  /\ error = [s \in Sessions |-> ""]
  /\ location = [s \in Sessions |-> FALSE]
  /\ subscribed = [s \in Sessions |-> FALSE]
  /\ ContactsScreenUnused
  /\ GeocodingUnused
  /\ RegisterScreenUnused
  /\ NothingInFlight
  /\ LoginScreenUnused
  /\ SettingsScreenUnused

\* Backend calls succeed; nobody pulls to refresh.
NextLive ==
  \/ \E s \in Sessions : Mount(s)
  \/ \E s \in Sessions : CheckUserTypeDoneJoining(s, TRUE)
  \/ \E s \in Sessions : LoadDone(s, TRUE)
  \/ \E s \in Sessions : ChannelJoined(s)
  \/ \E type \in AlertTypes :
        InitialLoadStarted("viewer") /\ sendEmergencyAlert("reporter", type, "ok")

\* Every call in flight returns and every channel joins.
FairLive ==
  /\ \A s \in Sessions : WF_vars(Mount(s))
  /\ \A s \in Sessions : WF_vars(CheckUserTypeDoneJoining(s, TRUE))
  /\ \A s \in Sessions : WF_vars(LoadDone(s, TRUE))
  /\ \A s \in Sessions : WF_vars(ChannelJoined(s))

SpecLive == InitLive /\ [][NextLive]_vars /\ FairLive

(***************************************************************************)
(* The screens with each list query followed from the query to its answer   *)
(***************************************************************************)
\* The backend runs the query of a loadAlerts / loadActiveAlerts call in
\* flight; its answer is on its way to the screen.
LoadQueries(s) ==
  /\ loads[s] > 0
  /\ loads' = [loads EXCEPT ![s] = loads[s] - 1]
  /\ snapshots' = [snapshots EXCEPT ![s] = snapshots[s] \cup {QueryResult(s)}]
  /\ UNCHANGED <<contactVars, geoVars, regVars, loginVars, settingsVars>>
  /\ UNCHANGED <<dbVars, who, kind, mounted, checking, userType, isLoading, list,
                 error, location, subscribed, loading, sending, joining>>

\* An answer arrives, in any order: setAlerts(data) / setActiveAlerts(data).
LoadReturns(s, data) ==
  /\ data \in snapshots[s]
  /\ snapshots' = [snapshots EXCEPT ![s] = snapshots[s] \ {data}]
  /\ list' = [list EXCEPT ![s] = data]
  /\ error' = [error EXCEPT ![s] = IF kind[s] = "alerts1" THEN "" ELSE error[s]]
  /\ isLoading' = [isLoading EXCEPT ![s] =
                 IF kind[s] = "alerts1" THEN FALSE ELSE isLoading[s]]
  /\ UNCHANGED <<contactVars, geoVars, regVars, loginVars, settingsVars>>
  /\ UNCHANGED <<dbVars, who, kind, mounted, checking, userType, loads, location,
                 subscribed, loading, sending, joining>>

\* A civilian's Home screen and a verified responder's Home or Alerts screen
\* (first implementations, the ones that subscribe).
InitReplies ==
  /\ schema \in Schemas
  /\ users = Civilians
  /\ responders =
       [i \in ResponderIds |->
          [responder_type |-> IF i = "h1" THEN "hospital" ELSE "police",
           verification_status |-> i # "n1"]]
  /\ alertsTable = {}
  /\ responsesTable = {}
  /\ who \in [Sessions -> Identities]
  /\ who["reporter"] \in Civilians
  /\ who["viewer"] \in {"p1", "h1"}
  /\ kind \in [Sessions -> {"home1", "alerts1"}]
  /\ kind["reporter"] = "home1"
  /\ mounted = [s \in Sessions |-> FALSE]
  /\ checking = [s \in Sessions |-> FALSE]
  /\ userType = [s \in Sessions |-> "null"]
  /\ loads = [s \in Sessions |-> 0]
  /\ isLoading = [s \in Sessions |-> kind[s] = "alerts1"]
  /\ list = [s \in Sessions |-> {}]
  /\ error = [s \in Sessions |-> ""]
  /\ location = [s \in Sessions |-> FALSE]
  /\ subscribed = [s \in Sessions |-> FALSE]
  /\ ContactsScreenUnused
  /\ GeocodingUnused
  /\ RegisterScreenUnused
  /\ NothingInFlight
  /\ LoginScreenUnused
  /\ SettingsScreenUnused

\* The list queries succeed.
NextReplies ==
  \/ \E s \in Sessions : Mount(s)
  \/ \E s \in Sessions : CheckUserTypeDone(s, TRUE)
  \/ \E s \in Sessions : LoadQueries(s)
  \/ \E s \in Sessions : \E data \in snapshots[s] : LoadReturns(s, data)
  \/ \E s \in Sessions : Refresh(s)
  \/ \E s \in Sessions : PressStatusButton(s)
  \/ \E s \in Sessions, type \in AlertTypes : sendEmergencyAlert(s, type, "ok")

SpecReplies == InitReplies /\ [][NextReplies]_vars

(***************************************************************************)
(* Claims about the alert lists and the alert status                       *)
(***************************************************************************)
ResponderTypeOf(s) ==
  IF who[s] \in DOMAIN responders THEN responders[who[s]].responder_type ELSE "none"

\* C1: on every screen implementation, every alert in the list displayed to a
\* responder of type police has type police or general.
C1_PoliceListsOnlyPoliceOrGeneral ==
  \A s \in Sessions : ResponderTypeOf(s) = "police" =>
    \A r \in list[s] : r.type \in {"police", "general"}

\* C2: on every screen implementation, every alert in the list displayed to a
\* responder of type hospital has type medical or general.
C2_HospitalListsOnlyMedicalOrGeneral ==
  \A s \in Sessions : ResponderTypeOf(s) = "hospital" =>
    \A r \in list[s] : r.type \in {"medical", "general"}

\* C3: the list loaded for a civilian (an identity with a users row) holds only
\* alerts whose user_id is that civilian's identity.
C3_CivilianListsOnlyOwnAlerts ==
  \A s \in Sessions : who[s] \in users =>
    \A r \in list[s] : r.user_id = who[s]

\* C3 witness: a civilian's Alerts screen displays a loaded, non-empty list.
C3_Witness ==
  \E s \in Sessions :
    /\ who[s] \in users /\ IsAlertsScreen(s)
    /\ list[s] # {} /\ loads[s] = 0

Rank(status) ==
  CASE status = "pending" -> 0
    [] status = "acknowledged" -> 1
    [] status = "responding" -> 2
    [] status = "resolved" -> 3
    [] OTHER -> 4

\* C4: no step moves the stored status of an alert to an earlier value
\* of the order pending, acknowledged, responding, resolved.
C4_StatusNeverMovesBack ==
  [][\A r \in alertsTable : \A r2 \in alertsTable' :
       r2.id = r.id => Rank(r2.status) >= Rank(r.status)]_vars

\* C7: a step that is an updateAlertStatus call by an identity that is not a
\* verified responder (a civilian, or a responder whose verification_status is
\* false at the time of the call) leaves the alerts table unchanged.
C7_OnlyVerifiedRespondersChangeStatus ==
  [][\A s \in Sessions :
       (/\ ~IsVerifiedResponder(who[s])
        /\ \E item \in list[s], status \in Statuses,
              outcome \in {"ok", "updateError", "responseError"} :
              updateAlertStatus(s, item, status, outcome))
       => alertsTable' = alertsTable]_vars

\* C7 witness: the second Alerts screen of an identity that is not a verified
\* responder displays an alert and has a reload in flight, which only a press of
\* an action button starts there.
C7_Witness ==
  \E s \in Sessions :
    /\ kind[s] = "alerts2"
    /\ ~IsVerifiedResponder(who[s])
    /\ list[s] # {}
    /\ loads[s] > 0

\* C8: every row a query puts in a displayed list belongs to the signed-in
\* identity, or that identity is a responder whose verification_status is true.
C8_AlertsReadableByOwnerOrVerified ==
  [][\A s \in Sessions : list'[s] # list[s] =>
       \A r \in list'[s] : r.user_id = who[s] \/ IsVerifiedResponder(who[s])]_vars

\* C8 witness: a responder that is not verified has loaded the first Alerts
\* screen without error while alerts of other users exist, and got none.
C8_Witness ==
  \E s \in Sessions :
    /\ kind[s] = "alerts1" /\ who[s] \in DOMAIN responders
    /\ ~IsVerifiedResponder(who[s])
    /\ userType[s] # "null" /\ ~isLoading[s] /\ error[s] = "" /\ loads[s] = 0
    /\ list[s] = {}
    /\ \E r \in alertsTable : r.user_id # who[s]

C11_GeneralAlertsReachBothRoles ==
  [][\A s \in Sessions :
       (ResponderTypeOf(s) \in {"police", "hospital"} /\ LoadDone(s, TRUE)) =>
         \A r \in SelectAlerts(who[s]) :
           (r.type = "general" /\ (IsHomeScreen(s) => r.status # "resolved"))
             => r \in list'[s]]_vars

C13_ResponseNamesAlertAndResponder ==
  [][\A row \in responsesTable' \ responsesTable :
       /\ \E r \in alertsTable' : r.id = row.alert_id /\ r.status = row.action_taken
       /\ \E s \in Sessions :
            /\ PressStatusButton(s)
            /\ row.responder_id = who[s]]_vars

\* C14: no step removes or changes a responses row of an alert that exists
\* after the step.
C14_ResponsesAreAppendOnly ==
  [][\A row \in responsesTable :
       (\E a \in alertsTable' : a.id = row.alert_id) => row \in responsesTable']_vars

\* C14 witness: the log of an alert holds a row written by updateAlertStatus and
\* a row written through the data interface.
C14_Witness ==
  \E r1, r2 \in responsesTable :
    /\ r1.alert_id = r2.alert_id
    /\ r1.action_taken \in Statuses
    /\ r2.action_taken \in ActionTexts

\* C19: an updateAlertStatus call whose status write returns no error stores the
\* requested status in every row the UPDATE policy lets the caller write,
\* whatever status the row had, and no such call sets the error message.
C19_StatusWriteIsUnconditional ==
  [][\A s \in Sessions : \A item \in list[s], status \in Statuses,
          outcome \in {"ok", "responseError"} :
       updateAlertStatus(s, item, status, outcome) =>
         /\ \A r \in alertsTable :
              (r.id = item.id /\ AlertsUpdatePolicy(who[s], r))
                => [r EXCEPT !.status = status] \in alertsTable'
         /\ error'[s] = error[s]]_vars

\* C19 witness: two responders have written the status of the same alert from
\* lists that both showed it pending: both writes were applied (each left its
\* responses row) and the stored status is that of the later write, the
\* earlier of the two statuses.
C19_Witness ==
  \E r1, r2 \in responsesTable : \E a \in alertsTable :
    /\ r1.alert_id = a.id /\ r2.alert_id = a.id
    /\ r1.responder_id = "p1" /\ r1.action_taken = "responding"
    /\ r2.responder_id = "h1" /\ r2.action_taken = "acknowledged"
    /\ a.status = "acknowledged"

\* C20: on an Alerts screen whose viewer is not a civilian, the status changes
\* offered for a listed item are exactly acknowledged and responding when it
\* shows pending, responding when it shows acknowledged, resolved when it shows
\* responding, and none when it shows resolved; and pressing Respond on a
\* pending item whose stored row the caller may update stores responding
\* directly, with no error message.
C20_OfferedStatusChanges ==
  /\ [](\A s \in Sessions :
          (IsAlertsScreen(s) /\ mounted[s] /\ userType[s] # "civilian") =>
            \A item \in list[s] :
              OfferedStatuses(userType[s], item.status) =
                CASE item.status = "pending" -> {"acknowledged", "responding"}
                  [] item.status = "acknowledged" -> {"responding"}
                  [] item.status = "responding" -> {"resolved"}
                  [] item.status = "resolved" -> {})
  /\ [][\A s \in Sessions : \A item \in list[s] :
          (/\ item.status = "pending" /\ item \in alertsTable
           /\ AlertsUpdatePolicy(who[s], item)
           /\ updateAlertStatus(s, item, "responding", "ok"))
            => /\ [item EXCEPT !.status = "responding"] \in alertsTable'
               /\ error'[s] = error[s]]_vars

\* C20 witness: an alert is stored as responding, a responder's list shows it
\* so (Mark as Resolved is its only button), and the only responses rows it has
\* record responding: it never has a row for acknowledged.
C20_Witness ==
  \E a \in alertsTable :
    /\ a.status = "responding"
    /\ \E row \in responsesTable : row.alert_id = a.id
    /\ \A row \in responsesTable :
         row.alert_id = a.id => row.action_taken = "responding"
    /\ \E s \in Sessions :
         IsAlertsScreen(s) /\ userType[s] # "civilian" /\ a \in list[s]

\* C21: an updateAlertStatus call whose status write succeeds and whose
\* responses insert fails stores the requested status in every row the caller
\* may update, inserts no responses row, leaves the error message as it was and
\* starts a reload of the caller's list.
C21_FailedResponseInsertIsNotShown ==
  [][\A s \in Sessions : \A item \in list[s], status \in Statuses :
       updateAlertStatus(s, item, status, "responseError") =>
         /\ \A r \in alertsTable :
              (r.id = item.id /\ AlertsUpdatePolicy(who[s], r))
                => [r EXCEPT !.status = status] \in alertsTable'
         /\ responsesTable' = responsesTable
         /\ error'[s] = error[s]
         /\ loads'[s] = Min(loads[s] + 1, MaxPending)
         /\ loads'[s] > 0]_vars

\* C21 witness: on first-implementation Alerts screens, which write every
\* responses row with the caller's id, an alert has left pending, no responses
\* row exists, no error message is shown and a list displays the new status.
C21_Witness ==
  /\ \A s \in Sessions : kind[s] = "alerts1" /\ error[s] = ""
  /\ responsesTable = {}
  /\ \E a \in alertsTable : a.status # "pending" /\ \E s \in Sessions : a \in list[s]

\* C22: a press of an emergency button while the device location is not set
\* sets the error message and changes nothing else: no users row, no alert, no
\* call in flight and no raised loading flag; every call in flight and every
\* alert written comes from a device whose location is set.
C22_NoLocationNoWrite ==
  /\ [](\A s \in Sessions : (loading[s] \/ sending[s] # <<>>) => location[s])
  /\ [][\A s \in Sessions, type \in AlertTypes :
          (~location[s] /\ sendEmergencyAlertBegins(s, type)) =>
            /\ error'[s] = "Unable to get your location. Please try again."
            /\ users' = users /\ alertsTable' = alertsTable
            /\ loading'[s] = FALSE /\ sending'[s] = <<>>]_vars
  /\ [][alertsTable' # alertsTable =>
          \E s \in Sessions : location[s] /\ sending[s] # <<>> /\ sending'[s] # sending[s]]_vars

\* C22 witness: a civilian without a location has pressed an emergency button:
\* the message is shown, nothing is in flight and no alert exists.
C22_Witness ==
  \E s \in Sessions :
    /\ who[s] \in users /\ userType[s] = "civilian" /\ ~location[s]
    /\ error[s] = "Unable to get your location. Please try again."
    /\ ~loading[s] /\ sending[s] = <<>> /\ alertsTable = {}

\* C23: every row a step adds to alerts is pending, carries the identity signed
\* in on the device whose sendEmergencyAlert call returned in that step and the
\* type that call was pressed with; a call that returns "ok" for an identity
\* with a users row adds exactly one row.
C23_NewAlertIsPendingOwnedAndTyped ==
  /\ [][\A row \in alertsTable' \ alertsTable :
          \E s \in Sessions, i \in 1..MaxInFlight :
            /\ sendEmergencyAlertReturns(s, i, "ok")
            /\ row.status = "pending"
            /\ row.user_id = who[s]
            /\ row.type = sending[s][i]]_vars
  /\ [][\A s \in Sessions, i \in 1..MaxInFlight :
          (sendEmergencyAlertReturns(s, i, "ok") /\ who[s] \in users)
            => Cardinality(alertsTable' \ alertsTable) = 1]_vars

\* C23 witness: a civilian's medical alert is stored and the call that sent it
\* has returned without an error message.
C23_Witness ==
  \E s \in Sessions : \E row \in alertsTable :
    /\ row.user_id = who[s] /\ row.type = "medical" /\ row.status = "pending"
    /\ IsHomeScreen(s) /\ sending[s] = <<>> /\ ~loading[s] /\ error[s] = ""

\* C29: on a Home screen the loading flag is true exactly while a
\* sendEmergencyAlert call is in flight past its location check, a press is
\* taken only while the flag is false, so at most one call is in flight, and a
\* call that returns, with or without an error, leaves the flag false.
C29_LoadingFlagFollowsTheCall ==
  /\ [](\A s \in Sessions :
          /\ loading[s] <=> sending[s] # <<>>
          /\ Len(sending[s]) <= 1)
  /\ [][\A s \in Sessions, i \in 1..MaxInFlight,
           outcome \in {"ok", "notAuthenticated", "alertError"} :
          sendEmergencyAlertReturns(s, i, outcome) => loading'[s] = FALSE]_vars

\* C29 witness: a civilian's call has failed (its error message is shown on a
\* first-implementation Home screen, where a civilian loads no list) and the
\* flag is false again, while the other device has a call in flight with the
\* flag true.
C29_Witness ==
  \E s, t \in Sessions :
    /\ s # t /\ kind[s] = "home1" /\ who[s] \in Civilians
    /\ error[s] = BackendError /\ location[s] /\ ~loading[s] /\ sending[s] = <<>>
    /\ loading[t] /\ Len(sending[t]) = 1

\* C24: an alert whose type matches the role of the verified responder on the
\* viewer's screen, inserted after that screen sent its first list query, is
\* eventually in the screen's displayed list.
C24_InsertedAlertEventuallyShown ==
  \A r \in [id : AlertIds, user_id : Civilians, type : AlertTypes, status : {"pending"}] :
    (/\ r \in alertsTable
     /\ r.type \in {"general", IF ResponderTypeOf("viewer") = "police"
                                 THEN "police" ELSE "medical"})
      ~> (r \in list["viewer"])

\* C25: on a subscribed screen (every change of a listed alert starts a
\* reload there), once no list query is waiting to run and no answer is on
\* its way, the displayed list is the screen's role filter applied to the
\* stored alerts.
C25_SettledListIsCurrent ==
  \A s \in Sessions :
    (subscribed[s] /\ loads[s] = 0 /\ snapshots[s] = {}) => list[s] = QueryResult(s)

(***************************************************************************)
(* The Contacts screen (src/app/(tabs)/contacts.tsx)                       *)
(***************************************************************************)
ContactIds == {"k1", "k2", "k3"}
\* The user each contact was saved by.
ContactOwner == [k \in ContactIds |-> IF k = "k3" THEN "c2" ELSE "c1"]

\* "Users can CRUD own contacts" / "Users can CRUD their contacts": FOR ALL,
\* so the USING expression is also the check of a new row.
UsersCanCrudOwnContacts(uid, row) == row.user_id = uid

\* The rows a SELECT on contacts returns to uid.
SelectContacts(uid) == {r \in contactsTable : UsersCanCrudOwnContacts(uid, r)}

\* gen_random_uuid() of contacts.id.
FreshContactId ==
  IF \E k \in ContactIds : \A r \in contactsTable : r.id # k
    THEN CHOOSE k \in ContactIds : \A r \in contactsTable : r.id # k
    ELSE NullId

\* setPrimaryContact, first write without .neq('id', id): everything demoted.
DemoteOthers_All(uid, id) ==
  {IF UsersCanCrudOwnContacts(uid, r)
     THEN [r EXCEPT !.is_primary = FALSE] ELSE r : r \in contactsTable}

\* setPrimaryContact, first write with nothing demoted.
DemoteOthers_None(uid, id) == contactsTable

\* setPrimaryContact, first write: update({is_primary: false}).neq('id', id).
DemoteOthers(uid, id) ==
  {IF UsersCanCrudOwnContacts(uid, r) /\ r.id # id
     THEN [r EXCEPT !.is_primary = FALSE] ELSE r : r \in contactsTable}

\* setPrimaryContact, second write: update({is_primary: true}).eq('id', id).
PromoteOne(uid, id) ==
  {IF UsersCanCrudOwnContacts(uid, r) /\ r.id = id
     THEN [r EXCEPT !.is_primary = TRUE] ELSE r : r \in contactsTable}

\* Another contacts operation runs: the calls of the sessions of S are no longer
\* alone with the table.
Disturb(c, S) ==
  [t \in Sessions |-> IF t \in S THEN [c[t] EXCEPT !.clean = FALSE, !.wasPrimary = FALSE] ELSE c[t]]

\* A loadContacts call in flight runs its query and returns.
LoadContactsDone(s, ok) ==
  /\ contactLoads[s] > 0
  /\ contactLoads' = [contactLoads EXCEPT ![s] = contactLoads[s] - 1]
  /\ contacts' = [contacts EXCEPT ![s] = IF ok THEN SelectContacts(who[s]) ELSE contacts[s]]
  /\ contactsError' = [contactsError EXCEPT ![s] =
                         IF ok THEN contactsError[s] ELSE BackendError]
  /\ UNCHANGED <<contactsTable, call, alertVars, geoVars, regVars, restVars>>

\* addContact(): the inserted row carries the form's fields and is_primary, no
\* user_id.  outcome: "ok" or "insertError" (the request itself fails).
addContact(s, outcome) ==
  /\ LET row == [id |-> FreshContactId, user_id |-> NullId,
                 is_primary |-> contacts[s] = {}]
     IN  IF /\ outcome = "ok"
            /\ UsersCanCrudOwnContacts(who[s], row)
            /\ row.id # NullId
           THEN /\ contactsTable' = contactsTable \cup {row}
                /\ contactLoads' = [contactLoads EXCEPT ![s] =
                                      Min(contactLoads[s] + 1, MaxPending)]
                /\ UNCHANGED contactsError
           ELSE /\ contactsError' = [contactsError EXCEPT ![s] = BackendError]
                /\ UNCHANGED <<contactsTable, contactLoads>>
  /\ call' = Disturb(call, Sessions)
  /\ UNCHANGED <<contacts, alertVars, geoVars, regVars, restVars>>

\* deleteContact(item.id), pressed on the bin of a displayed contact.
deleteContact(s, id, ok) ==
  /\ id \in {r.id : r \in contacts[s]}
  /\ IF ok
       THEN /\ contactsTable' =
                 {r \in contactsTable : ~(r.id = id /\ UsersCanCrudOwnContacts(who[s], r))}
            /\ contactLoads' = [contactLoads EXCEPT ![s] =
                                  Min(contactLoads[s] + 1, MaxPending)]
            /\ UNCHANGED contactsError
       ELSE /\ contactsError' = [contactsError EXCEPT ![s] = BackendError]
            /\ UNCHANGED <<contactsTable, contactLoads>>
  /\ call' = Disturb(call, Sessions)
  /\ UNCHANGED <<contacts, alertVars, geoVars, regVars, restVars>>

\* setPrimaryContact(item.id), pressed on the badge of a displayed contact, up
\* to the return of its first write, whose error is not looked at.
setPrimaryContactFirstWrite(s, id, ok) ==
  /\ call[s].stage = "idle"
  /\ id \in {r.id : r \in contacts[s]}
  /\ contactsTable' = IF ok THEN DemoteOthers(who[s], id) ELSE contactsTable
  /\ call' = [Disturb(call, Sessions \ {s}) EXCEPT ![s] =
                [stage |-> "second", id |-> id,
                 clean |-> ok /\ \E r \in SelectContacts(who[s]) : r.id = id,
                 wasPrimary |-> ok /\ \E r \in SelectContacts(who[s]) :
                                        r.id = id /\ r.is_primary]]
  /\ UNCHANGED <<contacts, contactsError, contactLoads, alertVars, geoVars, regVars, restVars>>

\* setPrimaryContact from its second write to its return.
setPrimaryContactSecondWrite(s, ok) ==
  /\ call[s].stage = "second"
  /\ IF ok
       THEN /\ contactsTable' = PromoteOne(who[s], call[s].id)
            /\ contactLoads' = [contactLoads EXCEPT ![s] =
                                  Min(contactLoads[s] + 1, MaxPending)]
            /\ UNCHANGED contactsError
       ELSE /\ contactsError' = [contactsError EXCEPT ![s] = BackendError]
            /\ UNCHANGED <<contactsTable, contactLoads>>
  /\ call' = [Disturb(call, Sessions \ {s}) EXCEPT ![s] =
                [stage |-> "idle", id |-> call[s].id, clean |-> call[s].clean /\ ok,
                 wasPrimary |-> FALSE]]
  /\ UNCHANGED <<contacts, alertVars, geoVars, regVars, restVars>>

\* The contacts of uid that are primary.
PrimaryContacts(uid) ==
  {r.id : r \in {x \in contactsTable : x.user_id = uid /\ x.is_primary}}

\* Two civilians' devices show the Contacts screen, whose mount effect has
\* called loadContacts; the table holds contacts saved earlier, at most one of
\* them primary per user.
InitContacts ==
  /\ schema = "part_004"
  /\ users = Civilians
  /\ responders = [i \in {} |-> i]
  /\ alertsTable = {}
  /\ responsesTable = {}
  /\ who \in [Sessions -> Civilians]
  /\ who["reporter"] = "c1"
  /\ kind = [s \in Sessions |-> "home1"]
  /\ mounted = [s \in Sessions |-> FALSE]
  /\ checking = [s \in Sessions |-> FALSE]
  /\ userType = [s \in Sessions |-> "null"]
  /\ loads = [s \in Sessions |-> 0]
  /\ isLoading = [s \in Sessions |-> FALSE]
  /\ list = [s \in Sessions |-> {}]
  /\ error = [s \in Sessions |-> ""]
  /\ location = [s \in Sessions |-> FALSE]
  /\ subscribed = [s \in Sessions |-> FALSE]
  /\ contactsTable \in
       {T \in SUBSET [id : ContactIds, user_id : Civilians, is_primary : BOOLEAN] :
          /\ \A r1, r2 \in T : r1.id = r2.id => r1 = r2
          /\ \A r \in T : r.user_id = ContactOwner[r.id]
          /\ \A u \in Civilians :
               Cardinality({r \in T : r.user_id = u /\ r.is_primary}) <= 1}
  /\ contacts = [s \in Sessions |-> {}]
  /\ contactsError = [s \in Sessions |-> ""]
  /\ contactLoads = [s \in Sessions |-> 1]
  /\ call = [s \in Sessions |-> [stage |-> "idle", id |-> NullId, clean |-> FALSE, wasPrimary |-> FALSE]]
  /\ GeocodingUnused
  /\ RegisterScreenUnused
  /\ NothingInFlight
  /\ LoginScreenUnused
  /\ SettingsScreenUnused

NextContacts ==
  \/ \E s \in Sessions, ok \in BOOLEAN : LoadContactsDone(s, ok)
  \/ \E s \in Sessions, outcome \in {"ok", "insertError"} : addContact(s, outcome)
  \/ \E s \in Sessions, id \in ContactIds, ok \in BOOLEAN : deleteContact(s, id, ok)
  \/ \E s \in Sessions, id \in ContactIds, ok \in BOOLEAN :
        setPrimaryContactFirstWrite(s, id, ok)
  \/ \E s \in Sessions, ok \in BOOLEAN : setPrimaryContactSecondWrite(s, ok)

SpecContacts == InitContacts /\ [][NextContacts]_vars

(***************************************************************************)
(* Claims about the primary contact                                        *)
(***************************************************************************)
\* C5: in every reachable state, at most one contact of each user has
\* is_primary = true.
C5_AtMostOnePrimaryContact ==
  \A u \in Civilians : Cardinality(PrimaryContacts(u)) <= 1

\* C6: when a setPrimaryContact(id) call has returned, both of its writes
\* succeeded, id was a contact of the caller and no other contacts operation ran
\* from its first write on, exactly one contact of the caller is primary: id.
C6_SetPrimaryContactLeavesOnePrimary ==
  \A s \in Sessions :
    (call[s].stage = "idle" /\ call[s].clean) =>
      PrimaryContacts(who[s]) = {call[s].id}

\* C6 witness: such a call has returned on a table where the caller has several
\* contacts, and its reload has shown the caller the new primary.
C6_Witness ==
  \E s \in Sessions :
    /\ call[s].stage = "idle" /\ call[s].clean
    /\ Cardinality(SelectContacts(who[s])) >= 2
    /\ \E r \in contacts[s] : r.id = call[s].id /\ r.is_primary

\* C15: an addContact call whose insert request goes through stores a new
\* contact row whose user_id is the caller's identity (so that a reload shows
\* it in the caller's list), and every row an addContact step stores is such.
C15_AddedContactBelongsToCaller ==
  [][\A s \in Sessions :
       addContact(s, "ok") =>
         /\ \E row \in contactsTable' \ contactsTable : row.user_id = who[s]
         /\ \A row \in contactsTable' \ contactsTable :
              row.user_id = who[s] /\ row \in SelectContacts(who[s])']_vars

\* C16: every step in which a backend call of a screen operation fails leaves
\* the screen's error message set.
C16_EveryFailureSetsTheError ==
  [][\A s \in Sessions :
       /\ (\/ LoadDone(s, FALSE)
           \/ \E item \in list[s], status \in Statuses :
                \/ updateAlertStatus(s, item, status, "updateError")
                \/ updateAlertStatus(s, item, status, "responseError")
           \/ \E type \in AlertTypes : sendEmergencyAlert(s, type, "alertError"))
          => error'[s] # ""
       /\ (\/ LoadContactsDone(s, FALSE)
           \/ addContact(s, "insertError")
           \/ \E id \in ContactIds :
                \/ deleteContact(s, id, FALSE)
                \/ setPrimaryContactFirstWrite(s, id, FALSE)
           \/ setPrimaryContactSecondWrite(s, FALSE))
          => contactsError'[s] # ""]_vars

\* C18 as stated: when the first write of a setPrimaryContact call was applied
\* with nothing in between and its second write fails, the caller has no
\* primary contact.
C18_FailedSecondWriteLeavesNoPrimary ==
  [][\A s \in Sessions :
       (call[s].clean /\ setPrimaryContactSecondWrite(s, FALSE))
       => PrimaryContacts(who[s])' = {}]_vars

\* C18 as amended: in that case no contact other than the target is primary,
\* and the target is primary exactly if it was before the call.
C18_FailedSecondWriteKeepsOnlyTarget ==
  [][\A s \in Sessions :
       (call[s].clean /\ setPrimaryContactSecondWrite(s, FALSE))
       => PrimaryContacts(who[s])' =
            IF call[s].wasPrimary THEN {call[s].id} ELSE {}]_vars

\* C18 witness: between the two writes of a call, the contact the screen
\* displays as primary, which is not the target, has been cleared and the caller
\* has no primary contact.
C18_Witness ==
  \E s \in Sessions :
    /\ call[s].stage = "second" /\ call[s].clean
    /\ PrimaryContacts(who[s]) = {}
    /\ \E r \in contacts[s] : r.is_primary /\ r.id # call[s].id

(***************************************************************************)
(* Reverse geocoding (src/unnamed/part_003, lib/geocoding)                 *)
(***************************************************************************)
\* Coordinates are integers counting 10^-7 degree, one decimal more than
\* toFixed(6) keeps.
InputScale == 10
FractionDigits == 6
FractionScale == 10 ^ FractionDigits

\* Arguments of the calls followed.
LatitudeInputs == {0, 5, -4, -5, 65243999, 900000000}
LongitudeInputs == {0, 33792064, -33792065, 9999995, -1800000000}

\* Values of data.display_name in a parsed response; "undefined": no such field.
DisplayNames == {"12 Allen Avenue, Ikeja, Lagos", "undefined"}

Digit == <<"0", "1", "2", "3", "4", "5", "6", "7", "8", "9">>

\* The decimal digits of a natural number.
RECURSIVE NatToString(_)
NatToString(n) ==
  IF n < 10 THEN Digit[n + 1]
  ELSE NatToString(n \div 10) \o Digit[(n % 10) + 1]

\* The last k decimal digits of n, zero-padded.
RECURSIVE LastDigits(_, _)
LastDigits(n, k) ==
  IF k = 0 THEN "" ELSE LastDigits(n \div 10, k - 1) \o Digit[(n % 10) + 1]

\* Number.prototype.toFixed(6): the sign of x, then the nearest multiple of
\* 10^-6 to |x| (the larger one on a tie), with six fraction digits.
ToFixed6(x) ==
  LET mag == IF x < 0 THEN -x ELSE x
      n == (mag + (InputScale \div 2)) \div InputScale
  IN  (IF x < 0 THEN "-" ELSE "")
        \o NatToString(n \div FractionScale) \o "."
        \o LastDigits(n % FractionScale, FractionDigits)

\* `${latitude.toFixed(6)}, ${longitude.toFixed(6)}`
CoordinateString(lat, lon) == ToFixed6(lat) \o ", " \o ToFixed6(lon)

\* A catch block that lets the error go on to the caller.
CatchBlock_Rethrow(lat, lon) == [kind |-> "threw", value |-> ""]

\* The catch block of getAddressFromCoordinates.
CatchBlock(lat, lon) == [kind |-> "returned", value |-> CoordinateString(lat, lon)]

\* await fetch(...) throws (no network).
FetchThrows ==
  /\ geoStage = "fetch"
  /\ geoStage' = "done"
  /\ geoFailure' = "fetchThrew"
  /\ geoOutcome' = CatchBlock(latitude, longitude)
  /\ UNCHANGED <<latitude, longitude, alertVars, contactVars, regVars, restVars>>

\* await fetch(...) returns a response; !response.ok throws into the catch.
FetchResponds(ok) ==
  /\ geoStage = "fetch"
  /\ IF ok
       THEN /\ geoStage' = "json"
            /\ UNCHANGED <<geoFailure, geoOutcome>>
       ELSE /\ geoStage' = "done"
            /\ geoFailure' = "notOk"
            /\ geoOutcome' = CatchBlock(latitude, longitude)
  /\ UNCHANGED <<latitude, longitude, alertVars, contactVars, regVars, restVars>>

\* await response.json() throws (the body is not JSON).
JsonThrows ==
  /\ geoStage = "json"
  /\ geoStage' = "done"
  /\ geoFailure' = "jsonThrew"
  /\ geoOutcome' = CatchBlock(latitude, longitude)
  /\ UNCHANGED <<latitude, longitude, alertVars, contactVars, regVars, restVars>>

\* await response.json() returns data; return data.display_name.
JsonReturns(name) ==
  /\ geoStage = "json"
  /\ geoStage' = "done"
  /\ geoOutcome' = [kind |-> "returned", value |-> name]
  /\ UNCHANGED <<latitude, longitude, geoFailure, alertVars, contactVars, regVars, restVars>>

\* getAddressFromCoordinates(latitude, longitude) has been called.
InitGeo ==
  /\ schema = "part_004"
  /\ users = Civilians
  /\ responders = [i \in {} |-> i]
  /\ alertsTable = {}
  /\ responsesTable = {}
  /\ who = [s \in Sessions |-> "c1"]
  /\ kind = [s \in Sessions |-> "home1"]
  /\ mounted = [s \in Sessions |-> FALSE]
  /\ checking = [s \in Sessions |-> FALSE]
  /\ userType = [s \in Sessions |-> "null"]
  /\ loads = [s \in Sessions |-> 0]
  /\ isLoading = [s \in Sessions |-> FALSE]
  /\ list = [s \in Sessions |-> {}]
  /\ error = [s \in Sessions |-> ""]
  /\ location = [s \in Sessions |-> FALSE]
  /\ subscribed = [s \in Sessions |-> FALSE]
  /\ ContactsScreenUnused
  /\ latitude \in LatitudeInputs
  /\ longitude \in LongitudeInputs
  /\ geoStage = "fetch"
  /\ geoFailure = "none"
  /\ geoOutcome = [kind |-> "none", value |-> ""]
  /\ RegisterScreenUnused
  /\ NothingInFlight
  /\ LoginScreenUnused
  /\ SettingsScreenUnused

NextGeo ==
  \/ FetchThrows
  \/ \E ok \in BOOLEAN : FetchResponds(ok)
  \/ JsonThrows
  \/ \E name \in DisplayNames : JsonReturns(name)

SpecGeo == InitGeo /\ [][NextGeo]_vars

(***************************************************************************)
(* Claim about reverse geocoding                                           *)
(***************************************************************************)
\* C10: a call of getAddressFromCoordinates never ends by throwing, and a call
\* in which fetch threw or the response was not OK returns the string
\* "<latitude to 6 decimals>, <longitude to 6 decimals>".
C10_GeocodingFailureReturnsCoordinates ==
  /\ geoOutcome.kind # "threw"
  /\ (geoStage = "done" /\ geoFailure \in {"fetchThrew", "notOk"}) =>
       /\ geoOutcome.kind = "returned"
       /\ geoOutcome.value = ToFixed6(latitude) \o ", " \o ToFixed6(longitude)

\* C10 witness: the call for (6.5243999, -3.3792065) got a non-OK response and
\* returned the rounded coordinates.
C10_Witness ==
  /\ latitude = 65243999 /\ longitude = -33792065
  /\ geoStage = "done" /\ geoFailure = "notOk"
  /\ geoOutcome = [kind |-> "returned", value |-> "6.524400, -3.379207"]

(***************************************************************************)
(* The Register screen (src/app/(auth)/register.tsx)                       *)
(***************************************************************************)
\* Identities auth.signUp can create.
NewIds == {"r1", "r2", "r3"}
RegisterTypes == {"civilian", "police", "hospital"}

\* Table responders has SELECT and UPDATE policies only (part_004) or none
\* (jolly_island): no INSERT policy.
RespondersInsertPolicy(uid, row) == FALSE

\* The id auth.signUp gives the new identity.
FreshAuthId ==
  IF NewIds \ authIds # {} THEN CHOOSE i \in NewIds : i \notin authIds ELSE NullId

\* The message of the Error thrown when the profile insert fails.
ProfileErrorMessage(type) ==
  IF type = "civilian" THEN "Failed to create user profile"
  ELSE "Failed to create responder profile"

\* A profile error handled like a duplicate key: logged, and the flow goes on.
ProfileInsertFailed_Continue(type) == [stage |-> "dialog", error |-> ""]

\* handleRegister after a profile insert error that is not a duplicate key:
\* the throw, the catch block's setError and the return to the form.
ProfileInsertFailed(type) == [stage |-> "form", error |-> ProfileErrorMessage(type)]

\* handleRegister is pressed; valid: validateForm() passes.
handleRegister(type, valid) ==
  /\ regStage = "form"
  /\ regType' = type
  /\ IF valid
       THEN regStage' = "signUp" /\ regError' = ""
       ELSE regStage' = "form" /\ regError' = "Please fill in all required fields"
  /\ UNCHANGED <<authIds, regUser, alertVars, contactVars, geoVars, restVars>>

\* auth.signUp returns.  outcome: "ok", "emailTaken" (an authError naming a
\* duplicate key), "authError" (any other) or "noUser" (no error and no user in
\* the answer).
SignUpReturns(outcome) ==
  /\ regStage = "signUp"
  /\ IF outcome = "ok" /\ FreshAuthId # NullId
       THEN /\ authIds' = authIds \cup {FreshAuthId}
            /\ regUser' = FreshAuthId
            /\ regStage' = "profile"
            /\ UNCHANGED regError
       ELSE /\ regStage' = "form"
            /\ regError' =
                 CASE outcome = "noUser" -> "Registration failed. Please try again."
                   [] outcome = "emailTaken" ->
                        "An account with this email already exists. Please try logging in instead."
                   [] OTHER -> BackendError
            /\ UNCHANGED <<authIds, regUser>>
  /\ UNCHANGED <<regType, alertVars, contactVars, geoVars, restVars>>

\* The profile insert (users for a civilian, responders otherwise) returns.
\* outcome: "ok" or "insertError" (the request itself fails).
ProfileInsertReturns(outcome) ==
  /\ regStage = "profile"
  /\ LET uid == regUser
         civilian == regType = "civilian"
         row == [id |-> uid]
         allowed == /\ outcome = "ok"
                    /\ IF civilian THEN UsersInsertPolicy(uid, row)
                                   ELSE RespondersInsertPolicy(uid, row)
         duplicate == IF civilian THEN uid \in users ELSE uid \in DOMAIN responders
         after == IF allowed THEN [stage |-> "dialog", error |-> regError]
                  ELSE ProfileInsertFailed(regType)
     IN  /\ regStage' = after.stage
         /\ regError' = after.error
         /\ users' = IF allowed /\ civilian THEN users \cup {uid} ELSE users
         /\ responders' =
              IF allowed /\ ~civilian /\ ~duplicate
                THEN [i \in DOMAIN responders \cup {uid} |->
                        IF i = uid
                          THEN [responder_type |-> regType, verification_status |-> FALSE]
                          ELSE responders[i]]
                ELSE responders
  /\ UNCHANGED <<authIds, regType, regUser, schema, alertsTable, responsesTable,
                 uiVars, contactVars, geoVars, restVars>>

\* The Register screen of one device; nothing else runs.
InitRegister ==
  /\ schema \in Schemas
  /\ users = Civilians
  /\ responders =
       [i \in ResponderIds |->
          [responder_type |-> IF i = "h1" THEN "hospital" ELSE "police",
           verification_status |-> i # "n1"]]
  /\ alertsTable = {}
  /\ responsesTable = {}
  /\ who = [s \in Sessions |-> "c1"]
  /\ kind = [s \in Sessions |-> "home1"]
  /\ mounted = [s \in Sessions |-> FALSE]
  /\ checking = [s \in Sessions |-> FALSE]
  /\ userType = [s \in Sessions |-> "null"]
  /\ loads = [s \in Sessions |-> 0]
  /\ isLoading = [s \in Sessions |-> FALSE]
  /\ list = [s \in Sessions |-> {}]
  /\ error = [s \in Sessions |-> ""]
  /\ location = [s \in Sessions |-> FALSE]
  /\ subscribed = [s \in Sessions |-> FALSE]
  /\ ContactsScreenUnused
  /\ GeocodingUnused
  /\ RegisterScreenUnused
  /\ NothingInFlight
  /\ LoginScreenUnused
  /\ SettingsScreenUnused

NextRegister ==
  \/ \E type \in RegisterTypes, valid \in BOOLEAN : handleRegister(type, valid)
  \/ \E outcome \in {"ok", "emailTaken", "authError", "noUser"} : SignUpReturns(outcome)
  \/ \E outcome \in {"ok", "insertError"} : ProfileInsertReturns(outcome)

SpecRegister == InitRegister /\ [][NextRegister]_vars

(***************************************************************************)
(* The Login screen (src/unnamed/part_001) and the accounts of the app      *)
(***************************************************************************)
\* handleLogin with the credentials of uid.  outcome: "ok", or "invalid"
\* (signInWithPassword returns an error).  After a sign-in the users row is
\* upserted (an upsert is an INSERT, so it needs the INSERT policy; its result
\* is not read) and the screen is replaced: by the welcome route when the
\* users row has no last_login, which firstLogin stands for when a row exists.
handleLogin(uid, outcome, firstLogin) ==
  /\ loginStage = "form"
  /\ IF outcome = "invalid" \/ uid \notin authIds
       THEN /\ loginError' = "Invalid email or password. Please try again."
            /\ UNCHANGED <<loginStage, loginUser, users>>
       ELSE /\ loginError' = ""
            /\ loginUser' = uid
            /\ loginStage' = IF uid \notin users \/ firstLogin THEN "welcome" ELSE "tabs"
            /\ users' = IF UsersInsertPolicy(uid, [id |-> uid])
                          THEN users \cup {uid} ELSE users
  /\ UNCHANGED <<schema, responders, alertsTable, responsesTable, uiVars,
                 contactVars, geoVars, regVars, flightVars, settingsVars>>

\* SettingsScreen.handleLogout: signOut, then the Login screen.
handleLogout ==
  /\ loginStage # "form"
  /\ loginStage' = "form"
  /\ loginUser' = NullId
  /\ UNCHANGED loginError
  /\ UNCHANGED <<alertVars, contactVars, geoVars, regVars, flightVars, settingsVars>>

\* A civilian's and a responder's Home screen, a device on the Register
\* screen and a device on the Login screen.
InitAccounts ==
  /\ schema \in Schemas
  /\ users = Civilians
  /\ responders =
       [i \in ResponderIds |->
          [responder_type |-> IF i = "h1" THEN "hospital" ELSE "police",
           verification_status |-> i # "n1"]]
  /\ alertsTable = {}
  /\ responsesTable = {}
  /\ who = [s \in Sessions |-> IF s = "reporter" THEN "c1" ELSE "p1"]
  /\ kind = [s \in Sessions |-> "home1"]
  /\ mounted = [s \in Sessions |-> FALSE]
  /\ checking = [s \in Sessions |-> FALSE]
  /\ userType = [s \in Sessions |-> "null"]
  /\ loads = [s \in Sessions |-> 0]
  /\ isLoading = [s \in Sessions |-> FALSE]
  /\ list = [s \in Sessions |-> {}]
  /\ error = [s \in Sessions |-> ""]
  /\ location = [s \in Sessions |-> FALSE]
  /\ subscribed = [s \in Sessions |-> FALSE]
  /\ ContactsScreenUnused
  /\ GeocodingUnused
  /\ RegisterScreenUnused
  /\ NothingInFlight
  /\ LoginScreenUnused
  /\ SettingsScreenUnused

NextAccounts ==
  \/ \E s \in Sessions : Mount(s)
  \/ \E s \in Sessions, found \in BOOLEAN : CheckUserTypeDone(s, found)
  \/ \E s \in Sessions : LoadDone(s, TRUE)
  \/ \E s \in Sessions, type \in {"general"} : sendEmergencyAlert(s, type, "ok")
  \/ \E type \in RegisterTypes : handleRegister(type, TRUE)
  \/ SignUpReturns("ok")
  \/ ProfileInsertReturns("ok")
  \/ \E uid \in Identities \cup NewIds, outcome \in {"ok", "invalid"},
        firstLogin \in BOOLEAN : handleLogin(uid, outcome, firstLogin)
  \/ handleLogout

SpecAccounts == InitAccounts /\ [][NextAccounts]_vars

C30_FailedStatusWriteStopsTheHandler ==
  [][\A s \in Sessions : \A item \in list[s], status \in Statuses :
       updateAlertStatus(s, item, status, "updateError") =>
         /\ responsesTable' = responsesTable
         /\ alertsTable' = alertsTable
         /\ loads' = loads
         /\ list' = list
         /\ error'[s] # ""]_vars

C30_Witness ==
  \E s \in Sessions :
    /\ IsAlertsScreen(s) /\ mounted[s] /\ ~isLoading[s] /\ loads[s] = 0
    /\ who[s] \in DOMAIN responders /\ responders[who[s]].verification_status
    /\ error[s] = BackendError
    /\ responsesTable = {}
    /\ \E item \in list[s] :
         /\ item \in alertsTable /\ item.status = "pending"
         /\ OfferedStatuses(userType[s], item.status) # {}

\* C28: in no reachable state does an Alerts screen on which a civilian is
\* signed in offer a status change for an alert it displays, whatever the
\* screen's implementation and whether or not checkUserType has returned.
C28_NoStatusActionForCivilians ==
  \A s \in Sessions :
    (IsAlertsScreen(s) /\ who[s] \in users) =>
      \A item \in list[s] : OfferedStatuses(userType[s], item.status) = {}

(***************************************************************************)
(* The Settings screen (src/app/(tabs)/settings.tsx)                        *)
(***************************************************************************)
\* part_004: "Responders can read own data"; jolly_island states no policy
\* for responders.
RespondersSelectPolicy(uid, id) ==
  IF schema = "part_004" THEN uid = id ELSE FALSE

\* part_004: "Responders can update own data"; jolly_island states no policy
\* for responders.
RespondersUpdatePolicy(uid, id) ==
  IF schema = "part_004" THEN uid = id ELSE FALSE

\* "Users can read own data" (both schema files)
UsersSelectPolicy(uid, id) == uid = id

\* loadProfile returns (it starts when the screen mounts).  ok = FALSE: getUser
\* fails and the catch block runs.  setupNotifications writes push_token only.
loadProfileReturns(ok) ==
  /\ settingsUser # NullId /\ settingsLoading
  /\ settingsLoading' = FALSE
  /\ LET uid == settingsUser
         civilian == uid \in users /\ UsersSelectPolicy(uid, uid)
         responder == uid \in DOMAIN responders /\ RespondersSelectPolicy(uid, uid)
     IN  IF ~ok
           THEN /\ settingsError' = BackendError
                /\ UNCHANGED <<settingsType, profile>>
         ELSE IF civilian
           THEN /\ settingsType' = "civilian"
                /\ profile' = [loaded |-> TRUE, verification_status |-> FALSE]
                /\ settingsError' = ""
         ELSE IF responder
           THEN /\ settingsType' = responders[uid].responder_type
                /\ profile' = [loaded |-> TRUE,
                               verification_status |-> responders[uid].verification_status]
                /\ settingsError' = ""
         ELSE /\ settingsError' = "User profile not found"
              /\ UNCHANGED <<settingsType, profile>>
  /\ UNCHANGED <<settingsUser, isEditing>>
  /\ UNCHANGED <<alertVars, contactVars, geoVars, regVars, flightVars, loginVars>>

\* The Edit Profile and Cancel buttons: setIsEditing(editing).
setIsEditing(editing) ==
  /\ settingsUser # NullId /\ ~settingsLoading
  /\ isEditing # editing
  /\ isEditing' = editing
  /\ UNCHANGED <<settingsUser, settingsLoading, settingsType, profile, settingsError>>
  /\ UNCHANGED <<alertVars, contactVars, geoVars, regVars, flightVars, loginVars>>

\* saveProfile, pressed on Save Changes: update(profile).eq('id', user.id) on
\* users or responders by userType, profile being the object loadProfile set
\* (the text fields replace other keys of it).  outcome: "ok" or "updateError".
saveProfile(outcome) ==
  /\ settingsUser # NullId /\ ~settingsLoading /\ isEditing
  /\ profile.loaded /\ settingsType # "null"
  /\ LET uid == settingsUser
     IN  IF outcome = "updateError"
           THEN /\ settingsError' = BackendError
                /\ UNCHANGED <<isEditing, responders>>
           ELSE /\ settingsError' = ""
                /\ isEditing' = FALSE
                /\ responders' =
                     IF /\ settingsType # "civilian"
                        /\ uid \in DOMAIN responders
                        /\ RespondersUpdatePolicy(uid, uid)
                       THEN [responders EXCEPT
                               ![uid].verification_status = profile.verification_status]
                       ELSE responders
  /\ UNCHANGED <<settingsUser, settingsLoading, settingsType, profile>>
  /\ UNCHANGED <<schema, users, alertsTable, responsesTable, uiVars,
                 contactVars, geoVars, regVars, flightVars, loginVars>>

\* The screen is opened anew: its state is the initial one and the mount
\* effect calls loadProfile.
SettingsMount ==
  /\ settingsUser # NullId /\ ~settingsLoading
  /\ settingsLoading' = TRUE
  /\ settingsType' = "null"
  /\ profile' = NoProfile
  /\ isEditing' = FALSE
  /\ settingsError' = ""
  /\ UNCHANGED settingsUser
  /\ UNCHANGED <<alertVars, contactVars, geoVars, regVars, flightVars, loginVars>>

\* One device shows the Settings screen, signed in as any identity;
\* verification_status is any value set outside the app.
InitSettings ==
  /\ schema \in Schemas
  /\ users = Civilians
  /\ \E verified \in SUBSET ResponderIds :
       responders = [i \in ResponderIds |->
          [responder_type |-> IF i = "h1" THEN "hospital" ELSE "police",
           verification_status |-> i \in verified]]
  /\ alertsTable = {}
  /\ responsesTable = {}
  /\ settingsUser \in Identities
  /\ who = [s \in Sessions |-> settingsUser]
  /\ kind = [s \in Sessions |-> "home1"]
  /\ mounted = [s \in Sessions |-> FALSE]
  /\ checking = [s \in Sessions |-> FALSE]
  /\ userType = [s \in Sessions |-> "null"]
  /\ loads = [s \in Sessions |-> 0]
  /\ isLoading = [s \in Sessions |-> FALSE]
  /\ list = [s \in Sessions |-> {}]
  /\ error = [s \in Sessions |-> ""]
  /\ location = [s \in Sessions |-> FALSE]
  /\ subscribed = [s \in Sessions |-> FALSE]
  /\ ContactsScreenUnused
  /\ GeocodingUnused
  /\ RegisterScreenUnused
  /\ NothingInFlight
  /\ LoginScreenUnused
  /\ settingsLoading = TRUE
  /\ settingsType = "null"
  /\ profile = NoProfile
  /\ isEditing = FALSE
  /\ settingsError = ""

NextSettings ==
  \/ \E ok \in BOOLEAN : loadProfileReturns(ok)
  \/ \E editing \in BOOLEAN : setIsEditing(editing)
  \/ \E outcome \in {"ok", "updateError"} : saveProfile(outcome)
  \/ SettingsMount
  \/ \E i \in ResponderIds, v \in BOOLEAN : SetVerificationStatus(i, v)

SpecSettings == InitSettings /\ [][NextSettings]_vars

\* C27: no saveProfile call changes the stored verification_status of a
\* responder.
C27_SaveProfileKeepsVerificationStatus ==
  [][(\E outcome \in {"ok", "updateError"} : saveProfile(outcome)) =>
       \A i \in DOMAIN responders :
         responders'[i].verification_status = responders[i].verification_status]_vars

(***************************************************************************)
(* Claim about registration                                                *)
(***************************************************************************)
\* C17: when the profile insert of handleRegister returns and has stored no row
\* for the new identity (the insert failed, and not on a duplicate key), the
\* error message is set, the success dialog is not shown, and the identity
\* auth.signUp created still exists, with no users row and no responders row.
C17_FailedProfileLeavesOrphanIdentity ==
  [][\A outcome \in {"ok", "insertError"} :
       (/\ ProfileInsertReturns(outcome)
        /\ regUser \notin users' /\ regUser \notin DOMAIN responders')
       => /\ regError' # ""
          /\ regStage' # "dialog"
          /\ regUser \in authIds'
          /\ authIds' = authIds]_vars

\* C17 witness: back on the form with the profile error shown, the identity of
\* the failed registration exists and has neither row.
C17_Witness ==
  /\ regStage = "form"
  /\ regError \in {"Failed to create user profile", "Failed to create responder profile"}
  /\ regUser \in authIds
  /\ regUser \notin users /\ regUser \notin DOMAIN responders

====
